---- MODULE Spec2Model ----
(***************************************************************************)
(* Model of aw_qt/manager.py: the Locator and Discoverer functions, the    *)
(* Module life cycle (start, stop, toggle, is_alive) and the Manager       *)
(* registry (discover_modules, get_unexpected_stops, start, autostart,     *)
(* stop_all), together with the environment the supervisor runs in: the    *)
(* files on disk and on PATH, and the child processes, which exit on their *)
(* own schedule.                                                           *)
(***************************************************************************)
EXTENDS Integers, Sequences, FiniteSets, TLC

VARIABLES
    fs,       \* the files the Locator and the Discoverer see
    modules,  \* Manager.modules: name -> [started, process, last_process]
    procs,    \* every child spawned so far; a Popen handle is an index here
    pc,       \* "idle", or "wait": the supervisor thread is inside Popen.wait()
    cur,      \* the module whose stop() is blocked in wait() (None when idle)
    pending,  \* stop_all: the modules with a handle that the loop has still to
              \* visit, in dict order
    last      \* the last operation called: op, its name; arg, the names that
              \* start, stop, toggle or autostart was called with (for stop_all, the
              \* modules alive at the call); calls, the start() calls
              \* autostart made; ret, the modules returned (for is_alive, the
              \* module if alive; for discover_modules, the modules created);
              \* exc, the exception that reached the caller

vars == <<fs, modules, procs, pc, cur, pending, last>>

----------------------------------------------------------------------------
(* Bounds *)

\* Children spawned in one behaviour (guards every Popen).
MaxProcs == 2
\* Number of distinct names in the list handed to autostart().
MaxAutostart == 2

----------------------------------------------------------------------------
(* Names *)

None == "None"
NoProc == 0

Server == "aw-server"
Self == "aw-qt"
\* discover_modules, "These should always be bundled with aw-qt"
RequiredModules == {"aw-server", "aw-watcher-afk", "aw-watcher-window"}
\* A further watcher that an installation may or may not carry.
ExtraModules == {"aw-watcher-web"}
\* Names a caller may pass that no discovery pass ever yields.
UnknownNames == {"nonexistent-module"}
\* Files on PATH that are no modules.
OtherFiles == {"python3"}

ModuleNames == RequiredModules \cup {Self} \cup ExtraModules
\* Modules the caller operates on one by one (start, stop, toggle, is_alive);
\* "aw-watcher-window" and "aw-qt" are reached by discovery, stop_all and
\* get_unexpected_stops only.
OperatedNames == {"aw-server", "aw-watcher-afk", "aw-watcher-web"}
CallNames == OperatedNames \cup UnknownNames
\* Names that occur in the lists handed to autostart().
AutostartNames == {"aw-server", "aw-watcher-afk", "nonexistent-module"}
FileNames == ModuleNames \cup OtherFiles

\* glob("aw-*") on a basename, and '"aw-" in filename', over FileNames.
MatchesGlob(name) == name \in ModuleNames
ContainsAw(name) == name \in ModuleNames

----------------------------------------------------------------------------
(* The file system: the two bundle directories and the PATH directories.   *)
(*   bundledX    regular files in _search_paths with the execute bit       *)
(*   bundledNoX  regular files in _search_paths without it                 *)
(*   pathFiles   entries os.listdir() yields over the PATH directories     *)
(*   pathX       those of them shutil.which() accepts (executable)         *)
(*   listable    FALSE when os.listdir() fails on some PATH directory      *)

FsBundle ==
    [bundledX |-> RequiredModules \cup {Self}, bundledNoX |-> {},
     pathFiles |-> OtherFiles, pathX |-> OtherFiles, listable |-> TRUE]

FsEmpty ==
    [bundledX |-> {}, bundledNoX |-> {},
     pathFiles |-> OtherFiles, pathX |-> OtherFiles, listable |-> TRUE]

FsSystem ==
    [bundledX |-> {}, bundledNoX |-> {},
     pathFiles |-> FileNames, pathX |-> FileNames \ {"aw-watcher-window"},
     listable |-> TRUE]

FsBadPath ==
    [bundledX |-> {Server, Self}, bundledNoX |-> {"aw-watcher-afk"},
     pathFiles |-> ExtraModules \cup OtherFiles, pathX |-> ExtraModules \cup OtherFiles,
     listable |-> FALSE]

FsStates == {FsBundle, FsEmpty, FsSystem, FsBadPath}

----------------------------------------------------------------------------
(* Locator *)

\* os.path.isfile(exec_path) for some directory of _search_paths
LocateBundledExecutable(f, name) ==
    IF name \in f.bundledX \cup f.bundledNoX THEN "bundled" ELSE None

\* shutil.which(name) is not None
IsSystemModule(f, name) == name \in f.pathX

LocateExecutable(f, name) ==
    IF LocateBundledExecutable(f, name) # None THEN "bundled"
    ELSE IF IsSystemModule(f, name) THEN "path"
    ELSE None

\* subprocess.Popen([exec_path]): the exception it raises, if any.  A bundled
\* path is taken on isfile() alone, so it may lack the execute bit.
PopenError(f, name, where) ==
    IF where = "bundled" /\ name \notin f.bundledX THEN "PermissionError" ELSE None

----------------------------------------------------------------------------
(* Discoverer *)

DiscoverModulesBundled(f) == {n \in f.bundledX : MatchesGlob(n)}

\* Defined only when every PATH directory can be listed.
DiscoverModulesSystem(f) == {n \in f.pathFiles : ContainsAw(n)}

\* os.listdir(path) raises inside _discover_modules_system
DiscoverRaises(f) == ~f.listable

SymDiff(A, B) == (A \ B) \cup (B \ A)

\* Variant: found_modules starts from the empty set, not the required names.
FoundModulesNoRequired(f) ==
    SymDiff(DiscoverModulesBundled(f) \cup DiscoverModulesSystem(f), {Self})

\* found_modules of discover_modules, after "found_modules ^= {'aw-qt'}"
FoundModules(f) ==
    SymDiff(RequiredModules \cup DiscoverModulesBundled(f) \cup DiscoverModulesSystem(f),
            {Self})

\* Module.__init__
NewModule == [started |-> FALSE, process |-> NoProc, last_process |-> NoProc]

\* Variant: every found name gets a fresh Module, known or not.
InsertModulesOverwrite(mods, found) ==
    [n \in DOMAIN mods \cup found |-> IF n \in found THEN NewModule ELSE mods[n]]

\* Variant: the key set is updated with ^= as found_modules is, so a found
\* name that is already known is dropped.
InsertModulesToggle(mods, found) ==
    [n \in SymDiff(DOMAIN mods, found) |-> IF n \in DOMAIN mods THEN mods[n] ELSE NewModule]

\* The loop of discover_modules: insert the names not yet known.
InsertModules(mods, found) ==
    [n \in DOMAIN mods \cup found |-> IF n \in DOMAIN mods THEN mods[n] ELSE NewModule]

\* Manager.discover_modules: the mapping it leaves (unchanged when it raises).
DiscoveredModules(mods, f) ==
    IF DiscoverRaises(f) THEN mods ELSE InsertModules(mods, FoundModules(f))

----------------------------------------------------------------------------
(* Child processes.  A Popen handle is the index of its child in procs.    *)
(*   owner       the module whose start() spawned it                       *)
(*   exited      the child has terminated                                  *)
(* Popen.returncode is not kept: is_alive() polls before every read of it  *)
(* and wait() sets it, so wherever the code reads it, it is None exactly   *)
(* when the child has not exited.                                          *)

NewProc(m) == [owner |-> m, exited |-> FALSE]

\* Popen.poll() followed by "returncode is None"
PollIsNone(ps, p) == ~ps[p].exited

\* Module.is_alive(): False without a handle, else the poll.
IsAlive(mods, ps, m) ==
    IF mods[m].process = NoProc THEN FALSE ELSE PollIsNone(ps, mods[m].process)

----------------------------------------------------------------------------
(* Module.start / Module.stop as functions of the state they act on.  Each *)
(* yields the mapping and the process table it leaves and the exception it *)
(* propagates (None when it returns normally).                             *)

Outcome(mods, ps, exc) == [mods |-> mods, procs |-> ps, exc |-> exc]

\* Variant: started is set before the executable is located.
ModuleStartFlagFirst(mods, ps, f, m) ==
    LET where == LocateExecutable(f, m)
        p == Len(ps) + 1
        flagged == [mods EXCEPT ![m].started = TRUE]
    IN  IF where = None THEN Outcome(flagged, ps, None)
        ELSE IF PopenError(f, m, where) # None
             THEN Outcome(flagged, ps, PopenError(f, m, where))
        ELSE Outcome([flagged EXCEPT ![m].process = p], Append(ps, NewProc(m)), None)

\* Variant: start() on a module that is already started is rejected.
ModuleStartGuarded(mods, ps, f, m) ==
    LET where == LocateExecutable(f, m)
        p == Len(ps) + 1
    IN  IF mods[m].started \/ where = None THEN Outcome(mods, ps, None)
        ELSE IF PopenError(f, m, where) # None
             THEN Outcome(mods, ps, PopenError(f, m, where))
        ELSE Outcome([mods EXCEPT ![m].process = p, ![m].started = TRUE],
                     Append(ps, NewProc(m)), None)

\* Module.start on modules[m]
ModuleStart(mods, ps, f, m) ==
    LET where == LocateExecutable(f, m)
        p == Len(ps) + 1
    IN  IF where = None THEN Outcome(mods, ps, None)
        ELSE IF PopenError(f, m, where) # None
             THEN Outcome(mods, ps, PopenError(f, m, where))
        ELSE Outcome([mods EXCEPT ![m].process = p, ![m].started = TRUE],
                     Append(ps, NewProc(m)), None)

\* Variant: an unknown name gets a Module of its own, which is then started.
ManagerStartCreate(mods, ps, f, name) ==
    ModuleStart([n \in DOMAIN mods \cup {name} |->
                    IF n \in DOMAIN mods THEN mods[n] ELSE NewModule], ps, f, name)

\* Manager.start
ManagerStart(mods, ps, f, name) ==
    IF name \in DOMAIN mods THEN ModuleStart(mods, ps, f, name)
    ELSE Outcome(mods, ps, None)

\* Variant: stop() records the last handle and clears started, but keeps the
\* handle.
StopFinishKeepsHandle(mods, ps, m) ==
    IF IsAlive(mods, ps, m) THEN Outcome(mods, ps, "AssertionError")
    ELSE Outcome([mods EXCEPT ![m] = [started |-> FALSE, process |-> mods[m].process,
                                     last_process |-> mods[m].process]],
                 ps, None)

\* Lines 130-133 of Module.stop: the assertion, then the hand-over of the handle.
StopFinish(mods, ps, m) ==
    IF IsAlive(mods, ps, m) THEN Outcome(mods, ps, "AssertionError")
    ELSE Outcome([mods EXCEPT ![m] = [started |-> FALSE, process |-> NoProc,
                                     last_process |-> mods[m].process]],
                 ps, None)

\* Variant: terminate() is sent but stop() does not wait for the child.
ModuleStopNoWait(mods, ps, m) ==
    IF ~mods[m].started
    THEN [mods |-> mods, procs |-> ps, exc |-> None, blocked |-> FALSE]
    ELSE [blocked |-> FALSE] @@ StopFinish(mods, ps, m)

\* Module.stop up to the point where it returns or blocks in wait().
\* blocked = TRUE: terminate() was sent and the thread is inside wait(); the
\* signal changes nothing the supervisor reads until the child exits.
ModuleStop(mods, ps, m) ==
    IF ~mods[m].started
    THEN [mods |-> mods, procs |-> ps, exc |-> None, blocked |-> FALSE]
    ELSE IF ~IsAlive(mods, ps, m)
    THEN [blocked |-> FALSE] @@ StopFinish(mods, ps, m)
    ELSE [mods |-> mods, procs |-> ps, exc |-> None, blocked |-> TRUE]

----------------------------------------------------------------------------
(* Manager.autostart and Manager.stop_all *)

ToSet(seq) == {seq[i] : i \in DOMAIN seq}

\* The orders in which a Python set (or the dict built from one) can be iterated.
Orders(S) == {o \in [1..Cardinality(S) -> S] : ToSet(o) = S}

\* Manager.start on each name of seq in turn; an exception ends the run.
\* calls: the names whose Manager.start() call was begun, in order.
RECURSIVE StartEach(_, _, _, _, _)
StartEach(mods, ps, f, seq, calls) ==
    IF seq = <<>> THEN [calls |-> calls] @@ Outcome(mods, ps, None)
    ELSE LET r == ManagerStart(mods, ps, f, Head(seq))
         IN  IF r.exc # None THEN [calls |-> Append(calls, Head(seq))] @@ r
             ELSE StartEach(r.mods, r.procs, f, Tail(seq), Append(calls, Head(seq)))

\* Variant: the server is started after the others.
AutostartOrderServerLast(req, rest) ==
    rest \o (IF Server \in req THEN <<Server>> ELSE <<>>)

\* The sequence of Manager.start() calls autostart makes for the request req,
\* rest being the iteration order of set(req) - {"aw-server"}.  The code
\* reads the list it is given through "in" and set() only, so req is the set
\* of the names in it.
AutostartOrder(req, rest) ==
    (IF Server \in req THEN <<Server>> ELSE <<>>) \o rest

Autostarted(mods, ps, f, req, rest) ==
    StartEach(mods, ps, f, AutostartOrder(req, rest), <<>>)

\* Variant: the loop ends after the first module it stops.
RECURSIVE StopLoopFirstOnly(_, _, _)
StopLoopFirstOnly(mods, ps, seq) ==
    IF seq = <<>>
    THEN [mods |-> mods, procs |-> ps, exc |-> None, blocked |-> FALSE,
          cur |-> None, pending |-> <<>>]
    ELSE LET m == Head(seq)
             r == ModuleStop(mods, ps, m)
         IN  IF ~IsAlive(mods, ps, m)
             THEN StopLoopFirstOnly(mods, ps, Tail(seq))
             ELSE [cur |-> IF r.blocked THEN m ELSE None, pending |-> <<>>] @@ r

\* Variant: the loop calls stop() on every module, alive or not.
RECURSIVE StopLoopNoFilter(_, _, _)
StopLoopNoFilter(mods, ps, seq) ==
    IF seq = <<>>
    THEN [mods |-> mods, procs |-> ps, exc |-> None, blocked |-> FALSE,
          cur |-> None, pending |-> <<>>]
    ELSE LET m == Head(seq)
             r == ModuleStop(mods, ps, m)
         IN  IF r.exc # None
             THEN [blocked |-> FALSE, cur |-> None, pending |-> <<>>] @@ r
             ELSE IF r.blocked
             THEN [cur |-> m, pending |-> Tail(seq)] @@ r
             ELSE StopLoopNoFilter(r.mods, r.procs, Tail(seq))

\* The loop of stop_all over the modules still to visit.  The filter is lazy:
\* is_alive() is evaluated when the loop reaches the module.
RECURSIVE StopLoop(_, _, _)
StopLoop(mods, ps, seq) ==
    IF seq = <<>>
    THEN [mods |-> mods, procs |-> ps, exc |-> None, blocked |-> FALSE,
          cur |-> None, pending |-> <<>>]
    ELSE LET m == Head(seq)
             r == ModuleStop(mods, ps, m)
         IN  IF ~IsAlive(mods, ps, m)
             THEN StopLoop(mods, ps, Tail(seq))
             ELSE IF r.exc # None
             THEN [blocked |-> FALSE, cur |-> None, pending |-> <<>>] @@ r
             ELSE IF r.blocked
             THEN [cur |-> m, pending |-> Tail(seq)] @@ r
             ELSE StopLoop(r.mods, r.procs, Tail(seq))

\* Modules whose is_alive() can return True: those that own a handle.  The
\* others are passed over by the filter whenever the loop reaches them, and
\* cannot obtain a handle while the thread is inside stop_all.
WithHandle(mods) == {m \in DOMAIN mods : mods[m].process # NoProc}

AliveModules(mods, ps) == {m \in DOMAIN mods : IsAlive(mods, ps, m)}

\* Variant: the filter tests liveness only.
UnexpectedStopsNotAlive(mods, ps) == {m \in DOMAIN mods : ~IsAlive(mods, ps, m)}

\* Manager.get_unexpected_stops (x.started and not x.is_alive())
UnexpectedStops(mods, ps) ==
    {m \in DOMAIN mods : mods[m].started /\ ~IsAlive(mods, ps, m)}

----------------------------------------------------------------------------
(* State machine *)

Called(op, arg) == [op |-> op, arg |-> arg, calls |-> <<>>, ret |-> {}, exc |-> None]

Init ==
    /\ fs \in {f \in FsStates : f.listable}
    /\ modules = DiscoveredModules([n \in {} |-> NewModule], fs)
    /\ procs = <<>>
    /\ pc = "idle"
    /\ cur = None
    /\ pending = <<>>
    /\ last = Called("__init__", {})

\* Manager.discover_modules()
DiscoverModules ==
    /\ pc = "idle"
    /\ modules' = DiscoveredModules(modules, fs)
    /\ last' = [Called("discover_modules", {}) EXCEPT
                  !.ret = DOMAIN DiscoveredModules(modules, fs) \ DOMAIN modules,
                  !.exc = IF DiscoverRaises(fs) THEN "OSError" ELSE None]
    /\ UNCHANGED <<fs, procs, pc, cur, pending>>

\* Manager.start(name)
Start(name) ==
    /\ pc = "idle"
    /\ LET r == ManagerStart(modules, procs, fs, name)
       IN  /\ Len(r.procs) <= MaxProcs
           /\ modules' = r.mods
           /\ procs' = r.procs
           /\ last' = [Called("start", {name}) EXCEPT !.exc = r.exc]
    /\ UNCHANGED <<fs, pc, cur, pending>>

\* Manager.autostart(req)
Autostart(req) ==
    /\ pc = "idle"
    /\ \E rest \in Orders(req \ {Server}) :
         LET r == Autostarted(modules, procs, fs, req, rest)
         IN  /\ Len(r.procs) <= MaxProcs
             /\ modules' = r.mods
             /\ procs' = r.procs
             /\ last' = [Called("autostart", req) EXCEPT
                           !.calls = r.calls, !.exc = r.exc]
    /\ UNCHANGED <<fs, pc, cur, pending>>

\* The thread after a stop() or stop_all() step r: back at the caller, or in wait().
Resume(r) ==
    /\ modules' = r.mods
    /\ procs' = r.procs
    /\ pc' = IF r.blocked THEN "wait" ELSE "idle"
    /\ cur' = r.cur
    /\ pending' = r.pending

\* Module.stop() on modules[m]
Stop(m) ==
    /\ pc = "idle"
    /\ m \in DOMAIN modules
    /\ LET r == ModuleStop(modules, procs, m)
       IN  /\ Resume([cur |-> IF r.blocked THEN m ELSE None, pending |-> <<>>] @@ r)
           /\ last' = [Called("stop", {m}) EXCEPT !.exc = r.exc]
    /\ UNCHANGED fs

\* Variant: toggle() decides on is_alive() instead of the started flag.
ToggleOnAlive(m) ==
    /\ pc = "idle"
    /\ m \in DOMAIN modules
    /\ IF IsAlive(modules, procs, m)
       THEN LET r == ModuleStop(modules, procs, m)
            IN  /\ Resume([cur |-> IF r.blocked THEN m ELSE None, pending |-> <<>>] @@ r)
                /\ last' = [Called("toggle", {m}) EXCEPT !.exc = r.exc]
       ELSE LET r == ModuleStart(modules, procs, fs, m)
            IN  /\ Len(r.procs) <= MaxProcs
                /\ modules' = r.mods
                /\ procs' = r.procs
                /\ last' = [Called("toggle", {m}) EXCEPT !.exc = r.exc]
                /\ UNCHANGED <<pc, cur, pending>>
    /\ UNCHANGED fs

\* Module.toggle() on modules[m]
Toggle(m) ==
    /\ pc = "idle"
    /\ m \in DOMAIN modules
    /\ IF modules[m].started
       THEN LET r == ModuleStop(modules, procs, m)
            IN  /\ Resume([cur |-> IF r.blocked THEN m ELSE None, pending |-> <<>>] @@ r)
                /\ last' = [Called("toggle", {m}) EXCEPT !.exc = r.exc]
       ELSE LET r == ModuleStart(modules, procs, fs, m)
            IN  /\ Len(r.procs) <= MaxProcs
                /\ modules' = r.mods
                /\ procs' = r.procs
                /\ last' = [Called("toggle", {m}) EXCEPT !.exc = r.exc]
                /\ UNCHANGED <<pc, cur, pending>>
    /\ UNCHANGED fs

\* Variant: is_alive() releases the handle when it sees the child has exited.
IsAliveCallReleasing(m) ==
    /\ pc = "idle"
    /\ m \in DOMAIN modules
    /\ last' = [Called("is_alive", {}) EXCEPT
                  !.ret = IF IsAlive(modules, procs, m) THEN {m} ELSE {}]
    /\ modules' = IF modules[m].process # NoProc /\ ~IsAlive(modules, procs, m)
                  THEN [modules EXCEPT ![m].process = NoProc,
                                       ![m].last_process = modules[m].process]
                  ELSE modules
    /\ UNCHANGED <<fs, procs, pc, cur, pending>>

\* Module.is_alive() on modules[m]
IsAliveCall(m) ==
    /\ pc = "idle"
    /\ m \in DOMAIN modules
    /\ last' = [Called("is_alive", {}) EXCEPT
                  !.ret = IF IsAlive(modules, procs, m) THEN {m} ELSE {}]
    /\ UNCHANGED <<fs, modules, procs, pc, cur, pending>>

\* Manager.get_unexpected_stops()
GetUnexpectedStops ==
    /\ pc = "idle"
    /\ last' = [Called("get_unexpected_stops", {}) EXCEPT
                  !.ret = UnexpectedStops(modules, procs)]
    /\ UNCHANGED <<fs, modules, procs, pc, cur, pending>>

\* Manager.stop_all(), up to its return or its first wait().  order: the dict
\* order of the modules that own a handle; arg: the modules alive at the call.
StopAll ==
    /\ pc = "idle"
    /\ \E order \in Orders(WithHandle(modules)) :
         LET r == StopLoop(modules, procs, order)
         IN  /\ Resume(r)
             /\ last' = [Called("stop_all", AliveModules(modules, procs)) EXCEPT
                           !.exc = r.exc]
    /\ UNCHANGED fs

\* Variant: wait() has a timeout and returns whether the child exited or not.
WaitReturnTimeout ==
    /\ pc = "wait"
    /\ LET f == StopFinish(modules, procs, cur)
           r == IF f.exc # None
                THEN [blocked |-> FALSE, cur |-> None, pending |-> <<>>] @@ f
                ELSE StopLoop(f.mods, f.procs, pending)
       IN  /\ Resume(r)
           /\ last' = [last EXCEPT !.exc = r.exc]
    /\ UNCHANGED fs

\* Popen.wait() returns in the blocked stop(): stop() finishes and, inside
\* stop_all, the loop goes on to its next wait() or to its end.
WaitReturn ==
    /\ pc = "wait"
    /\ procs[modules[cur].process].exited
    /\ LET f == StopFinish(modules, procs, cur)
           r == IF f.exc # None
                THEN [blocked |-> FALSE, cur |-> None, pending |-> <<>>] @@ f
                ELSE StopLoop(f.mods, f.procs, pending)
       IN  /\ Resume(r)
           /\ last' = [last EXCEPT !.exc = r.exc]
    /\ UNCHANGED fs

\* Variant: the exit of a child clears the started flag of the module that
\* holds its handle.
ProcExitClearsStarted(p) ==
    /\ ~procs[p].exited
    /\ procs' = [procs EXCEPT ![p].exited = TRUE]
    /\ modules' = [m \in DOMAIN modules |->
                     IF modules[m].process = p
                     THEN [modules[m] EXCEPT !.started = FALSE]
                     ELSE modules[m]]
    /\ UNCHANGED <<fs, pc, cur, pending, last>>

\* A child exits: by itself at any time, or after a terminate().
ProcExit(p) ==
    /\ ~procs[p].exited
    /\ procs' = [procs EXCEPT ![p].exited = TRUE]
    /\ UNCHANGED <<fs, modules, pc, cur, pending, last>>

\* Files are installed or removed, PATH changes.
FsChange ==
    /\ fs' \in FsStates \ {fs}
    /\ UNCHANGED <<modules, procs, pc, cur, pending, last>>

\* The lists a caller hands to autostart().
Requests == {req \in SUBSET AutostartNames : Cardinality(req) <= MaxAutostart}

Next ==
    \/ DiscoverModules
    \/ \E name \in CallNames : Start(name)
    \/ \E req \in Requests : Autostart(req)
    \/ \E m \in OperatedNames : Stop(m)
    \/ \E m \in OperatedNames : Toggle(m)
    \/ \E m \in OperatedNames : IsAliveCall(m)
    \/ GetUnexpectedStops
    \/ StopAll
    \/ WaitReturn
    \/ \E p \in 1..MaxProcs : p <= Len(procs) /\ ProcExit(p)
    \/ FsChange

Spec == Init /\ [][Next]_vars

\* Popen.wait() returns once the child has exited: the blocked thread is
\* woken and runs on.  Nothing makes a child exit, so ProcExit is not fair.
FairSpec == Spec /\ WF_vars(WaitReturn)

----------------------------------------------------------------------------
(* Properties *)

\* The state of the child behind handle p, as the operating system has it.
Exited(p) == procs[p].exited
\* The module is started and the child behind its handle has exited.
Crashed(m) ==
    /\ modules[m].started
    /\ modules[m].process # NoProc
    /\ Exited(modules[m].process)
\* The module was stopped and not started since: no handle, a last handle.
StoppedAfterRun(m) ==
    /\ ~modules[m].started
    /\ modules[m].process = NoProc
    /\ modules[m].last_process # NoProc

\* C1 (self-exclusion): in every state after a discovery, "aw-qt" is no key
\* of the mapping, whether or not a file named "aw-qt" was found.
C1_SelfExcluded == Self \notin DOMAIN modules

\* C2 (autostart ordering): when the request of an autostart() call holds
\* "aw-server", the first start() call it makes is the server's, that call has
\* returned (or has ended the whole autostart) before any other begins, and
\* the server is not started a second time.
C2_ServerFirst ==
    (last.op = "autostart" /\ Server \in last.arg) =>
        /\ last.calls # <<>>
        /\ last.calls[1] = Server
        /\ \A i \in 2..Len(last.calls) : last.calls[i] # Server
        /\ (last.exc = None => ToSet(last.calls) = last.arg)

\* An autostart asked for a watcher and the server: both were spawned, the
\* server first.
C2_Witness ==
    /\ last.op = "autostart"
    /\ last.arg = {Server, "aw-watcher-afk"}
    /\ last.calls = <<Server, "aw-watcher-afk">>
    /\ modules[Server].process # NoProc
    /\ modules["aw-watcher-afk"].process > modules[Server].process

\* C3 (crash detection): get_unexpected_stops() returns exactly the modules
\* that are started and whose child has exited (or that own no handle); a
\* crashed module is in the result, a module that was stopped and not started
\* again is not.
C3_UnexpectedStops ==
    [][GetUnexpectedStops =>
         /\ last'.ret = {m \in DOMAIN modules :
                            modules[m].started /\ (modules[m].process = NoProc
                                                   \/ Exited(modules[m].process))}
         /\ \A m \in DOMAIN modules :
              /\ Crashed(m) => m \in last'.ret
              /\ StoppedAfterRun(m) => m \notin last'.ret]_vars

\* get_unexpected_stops() has reported a crashed module and left out a module
\* that was stopped.
C3_Witness ==
    /\ last.op = "get_unexpected_stops"
    /\ \E m \in last.ret : Crashed(m)
    /\ \E m \in DOMAIN modules \ last.ret : StoppedAfterRun(m)

\* A step in which a stop() called on the started module m returns: at once
\* (its child had exited already) or when wait() returns.
StopReturns(m) ==
    /\ m \in DOMAIN modules
    /\ modules[m].started
    /\ \/ pc = "idle" /\ (Stop(m) \/ Toggle(m)) /\ pc' = "idle"
       \/ pc = "wait" /\ cur = m /\ WaitReturn

\* C4 (stop post-condition): when stop() returns on a module that was started,
\* alive or not, the module is not alive, started is false, it owns no handle,
\* its last handle is the handle it owned at the call, and the assertion of
\* stop() has not failed.
C4_StopPost ==
    [][\A m \in ModuleNames :
         StopReturns(m) =>
            /\ ~IsAlive(modules', procs', m)
            /\ ~modules'[m].started
            /\ modules'[m].process = NoProc
            /\ modules'[m].last_process = modules[m].process
            /\ last'.exc # "AssertionError"]_vars

\* A stop() has returned on a module whose child it had to wait for or had
\* found dead: the handle is the last handle now and the child has exited.
C4_Witness ==
    /\ last.op = "stop"
    /\ pc = "idle"
    /\ \E m \in last.arg :
         /\ StoppedAfterRun(m)
         /\ Exited(modules[m].last_process)

\* C5 as claimed: once stop_all() has returned, every module that was alive
\* when it was called has started = false and is not alive.
C5_AliveAtCallStopped ==
    (last.op = "stop_all" /\ pc = "idle") =>
        \A m \in last.arg : ~modules[m].started /\ ~IsAlive(modules, procs, m)

\* C5 (amended): once stop_all() has returned, no module is alive; a module
\* that was alive at the call has started = false, unless its child exited
\* before the loop reached it: it then keeps started = true and its handle.
C5_NoneAlive ==
    (last.op = "stop_all" /\ pc = "idle") =>
        /\ \A m \in DOMAIN modules :
              modules[m].process = NoProc \/ Exited(modules[m].process)
        /\ \A m \in last.arg : ~modules[m].started \/ Crashed(m)
        /\ last.exc = None

\* stop_all() has returned after stopping two modules that were alive.
C5_Witness ==
    /\ last.op = "stop_all"
    /\ pc = "idle"
    /\ Cardinality(last.arg) = 2
    /\ \A m \in last.arg : StoppedAfterRun(m)

\* C6 (no error reaches the caller): no operation ends with an exception.
C6_NoException == last.exc = None

\* The executable of m resolves neither in the bundle nor on PATH.
Unresolvable(m) ==
    /\ m \notin fs.bundledX \cup fs.bundledNoX
    /\ m \notin fs.pathX

\* C7 (start of an unresolvable module): start() on a module whose executable
\* resolves nowhere leaves every module and every process as it was and
\* raises nothing; a module that was not started is still not started and not
\* alive.
C7_UnresolvedStart ==
    [][\A m \in ModuleNames :
         (/\ m \in DOMAIN modules
          /\ Unresolvable(m)
          /\ Start(m) \/ (~modules[m].started /\ Toggle(m)))
         => /\ modules' = modules
            /\ procs' = procs
            /\ last'.exc = None
            /\ (~modules[m].started =>
                   ~modules'[m].started /\ ~IsAlive(modules', procs', m))]_vars

\* start() was called on a known, never-started module with no executable.
C7_Witness ==
    /\ last.op = "start"
    /\ \E m \in last.arg :
         /\ m \in DOMAIN modules
         /\ Unresolvable(m)
         /\ modules[m] = NewModule
    /\ procs = <<>>

\* C8 (unknown name): Manager.start(name) with a name that is no key leaves
\* the mapping and the processes as they were and raises nothing.
C8_UnknownStart ==
    [][\A name \in CallNames :
         (name \notin DOMAIN modules /\ Start(name))
         => /\ modules' = modules
            /\ procs' = procs
            /\ last'.exc = None]_vars

\* start() was called with a name that is no key while a module was running.
C8_Witness ==
    /\ last.op = "start"
    /\ last.arg \cap DOMAIN modules = {}
    /\ last.exc = None
    /\ \E m \in DOMAIN modules : modules[m].started

\* C9 (discovery is additive): discover_modules() removes no key, leaves
\* every known Module and every process as it was, and the Modules it adds
\* are new ones.
C9_Additive ==
    [][DiscoverModules =>
         /\ DOMAIN modules \subseteq DOMAIN modules'
         /\ \A m \in DOMAIN modules : modules'[m] = modules[m]
         /\ \A m \in DOMAIN modules' \ DOMAIN modules : modules'[m] = NewModule
         /\ procs' = procs]_vars

\* A discovery has added a name while a known module was started.
C9_Witness ==
    /\ last.op = "discover_modules"
    /\ last.ret # {}
    /\ \E m \in DOMAIN modules \ last.ret : modules[m].started

\* C10 (discovery is idempotent): over unchanged files, a second
\* discover_modules() right after a first leaves the mapping the first left.
C10_Idempotent ==
    [][DiscoverModules => DiscoveredModules(modules', fs') = modules']_vars

\* A discovery over listable directories that found nothing new.
C10_Witness ==
    /\ last.op = "discover_modules"
    /\ last.exc = None
    /\ last.ret = {}
    /\ FoundModules(fs) \subseteq DOMAIN modules

\* The executable of m resolves and Popen succeeds on it: an executable file
\* in the bundle, or no bundled file of that name and an executable on PATH.
Spawnable(m) ==
    \/ m \in fs.bundledX
    \/ m \notin fs.bundledNoX /\ m \in fs.pathX

\* C11 (toggle): toggle() takes the stop path exactly when started is true.
\* On a module that is not started it acts as start(): it spawns when the
\* executable can be spawned, and never moves a handle to the last handle.
\* On a started module it spawns nothing: if the child is alive it waits for
\* it, if the child has exited it clears the state (started false, handle
\* moved to the last handle).
C11_Toggle ==
    [][\A m \in ModuleNames :
         (m \in DOMAIN modules /\ Toggle(m)) =>
            /\ ~modules[m].started =>
                 /\ pc' = "idle"
                 /\ modules'[m].last_process = modules[m].last_process
                 /\ Spawnable(m) =>
                      /\ Len(procs') = Len(procs) + 1
                      /\ modules'[m].started
                      /\ modules'[m].process = Len(procs')
                 /\ ~Spawnable(m) => modules' = modules /\ procs' = procs
            /\ modules[m].started =>
                 /\ procs' = procs
                 /\ Crashed(m) =>
                      /\ pc' = "idle"
                      /\ ~modules'[m].started
                      /\ modules'[m].process = NoProc
                      /\ modules'[m].last_process = modules[m].process
                 /\ ~Crashed(m) =>
                      pc' = "wait" /\ cur' = m /\ modules' = modules]_vars

\* toggle() was called on a started module whose child had exited: the state
\* is cleared and no second child was spawned.
C11_Witness ==
    /\ last.op = "toggle"
    /\ pc = "idle"
    /\ Len(procs) = 1
    /\ \E m \in last.arg : StoppedAfterRun(m) /\ procs[1].owner = m

\* C12 (frame of stop_all): a module that is not alive when stop_all() is
\* called keeps its started flag, its handle and its last handle through the
\* whole call: in the step that enters stop_all and in every return of a
\* wait() inside it.
C12_StopAllFrame ==
    [][/\ StopAll =>
            \A m \in DOMAIN modules \ AliveModules(modules, procs) :
               modules'[m] = modules[m]
       /\ (WaitReturn /\ last.op = "stop_all") =>
            \A m \in DOMAIN modules \ last.arg : modules'[m] = modules[m]]_vars

\* stop_all() has returned after stopping a module that was alive, and it
\* passed over one crashed module and one module that was never started.
C12_Witness ==
    /\ last.op = "stop_all"
    /\ pc = "idle"
    /\ \E a \in last.arg : StoppedAfterRun(a)
    /\ \E m \in DOMAIN modules \ last.arg : Crashed(m)
    /\ \E m \in DOMAIN modules \ last.arg : modules[m] = NewModule

\* C13 (required set): in every state from the construction on, and so after
\* every discover_modules() call, "aw-server", "aw-watcher-afk" and
\* "aw-watcher-window" are keys of the mapping, whatever the two passes find
\* and whether or not an executable resolves for them.
C13_RequiredPresent == RequiredModules \subseteq DOMAIN modules

\* discover_modules() has returned over a file system where both passes find
\* nothing and no required name resolves; the required names are keys.
C13_Witness ==
    /\ last.op = "discover_modules"
    /\ last.exc = None
    /\ DiscoverModulesBundled(fs) \cup DiscoverModulesSystem(fs) = {}
    /\ \A m \in RequiredModules :
         m \in DOMAIN modules /\ Unresolvable(m) /\ modules[m] = NewModule

\* The processes spawned by the start() calls of module m that are running.
LiveProcs(m) == {p \in 1..Len(procs) : procs[p].owner = m /\ ~procs[p].exited}

\* C14 (one live process per module): in every reachable state, of the
\* processes a module's start() calls have spawned, at most one is running.
C14_OneLiveProcess ==
    \A m \in DOMAIN modules : Cardinality(LiveProcs(m)) <= 1

\* C15 (changes of the started flag): started goes from false to true only
\* in a start() step (start, toggle or autostart) that spawns a process for
\* the module, and from true to false only where stop() on the module
\* finishes (called directly, by toggle() or by stop_all()).  A child's exit,
\* is_alive(), get_unexpected_stops(), discover_modules(), a change of the
\* files, a start() whose executable cannot be spawned and a stop_all() that
\* passes over a dead module leave it as it is.
C15_StartedChanges ==
    [][\A m \in DOMAIN modules :
         /\ m \in DOMAIN modules'
         /\ (~modules[m].started /\ modules'[m].started) =>
               /\ pc = "idle"
               /\ last'.op \in {"start", "toggle", "autostart"}
               /\ Spawnable(m)
               /\ Len(procs') > Len(procs)
               /\ modules'[m].process > Len(procs)
               /\ procs'[modules'[m].process] = NewProc(m)
         /\ (modules[m].started /\ ~modules'[m].started) => StopReturns(m)
         /\ modules'[m].started # modules[m].started =>
               ~( \/ \E p \in 1..Len(procs) : ProcExit(p)
                  \/ \E n \in DOMAIN modules : IsAliveCall(n)
                  \/ GetUnexpectedStops
                  \/ DiscoverModules
                  \/ FsChange )
         /\ (~modules[m].started /\ ~Spawnable(m) /\ (Start(m) \/ Toggle(m))) =>
               ~modules'[m].started
         /\ (Crashed(m) /\ StopAll) => modules'[m] = modules[m]]_vars

\* stop_all() was called when no module was alive and returned; a module whose
\* child had exited is still started, and not alive.
C15_Witness ==
    /\ last.op = "stop_all"
    /\ last.arg = {}
    /\ pc = "idle"
    /\ \E m \in DOMAIN modules : Crashed(m) /\ ~IsAlive(modules, procs, m)

\* C16 as stated (release on stop() and on observed termination): where
\* stop() on a module finishes, and where is_alive() or
\* get_unexpected_stops() observes that the child of a started module has
\* exited, the handle is cleared and the last handle is the exited process.
C16_ReleasedWhenObserved ==
    [][\A m \in DOMAIN modules :
         ( \/ StopReturns(m)
           \/ Crashed(m) /\ (IsAliveCall(m) \/ GetUnexpectedStops) ) =>
            /\ modules'[m].process = NoProc
            /\ modules'[m].last_process = modules[m].process]_vars

\* C16, amended (release by stop() only): the handle is cleared and recorded
\* as the last handle exactly where stop() on the module finishes, also when
\* stop() finds the child already exited; is_alive() and
\* get_unexpected_stops() change no module and no process, so a module whose
\* exit they observe keeps started, its handle and its last handle.
C16_ReleasedByStopOnly ==
    [][\A m \in DOMAIN modules :
         /\ m \in DOMAIN modules'
         /\ StopReturns(m) =>
               /\ modules'[m].process = NoProc
               /\ modules'[m].last_process = modules[m].process
         /\ modules'[m].last_process # modules[m].last_process => StopReturns(m)
         /\ (modules[m].process # NoProc /\ modules'[m].process = NoProc) =>
               StopReturns(m)
         /\ (Crashed(m) /\ (IsAliveCall(m) \/ GetUnexpectedStops)) =>
               modules' = modules /\ procs' = procs]_vars

\* get_unexpected_stops() has observed the exit of a child: the module it
\* returned is still started and holds the exited process as its handle, and
\* its last handle is still empty.
C16_Witness ==
    /\ last.op = "get_unexpected_stops"
    /\ pc = "idle"
    /\ last.ret # {}
    /\ \A m \in last.ret :
         /\ Crashed(m)
         /\ modules[m].last_process = NoProc
    /\ \A m \in DOMAIN modules : ~StoppedAfterRun(m)

\* The running processes of module m that no handle of m refers to.
Untracked(m) == LiveProcs(m) \ {modules[m].process}

\* C17 (double start): start() on a module that is started and alive is not
\* rejected.  It spawns a second process and puts it in the handle; the first
\* process stays as it was, running, and no handle refers to it any more.
\* Where a later stop() on the module finishes (called directly or by
\* stop_all()), it has waited for the handle's process only: the module is
\* left not started and not alive, and every untracked process of the module
\* is still running.
C17_DoubleStart ==
    [][\A m \in DOMAIN modules :
         /\ (modules[m].started /\ IsAlive(modules, procs, m) /\ Spawnable(m)
               /\ Start(m)) =>
               LET old == modules[m].process
               IN  /\ last'.exc = None
                   /\ procs' = Append(procs, NewProc(m))
                   /\ modules'[m].started
                   /\ modules'[m].process = Len(procs')
                   /\ ~procs'[old].exited
                   /\ \A n \in DOMAIN modules' :
                        modules'[n].process # old /\ modules'[n].last_process # old
                   /\ old \in LiveProcs(m)' /\ old \in Untracked(m)'
         /\ (Untracked(m) # {} /\ StopReturns(m)) =>
               /\ procs' = procs
               /\ ~modules'[m].started
               /\ ~IsAlive(modules', procs', m)
               /\ modules'[m].last_process = modules[m].process
               /\ Untracked(m)' = Untracked(m)]_vars

\* A module was started twice and then stopped: it is not started and not
\* alive, its last handle is the second process, which has exited, and its
\* first process is still running.
C17_Witness ==
    /\ pc = "idle"
    /\ last.op \in {"stop", "stop_all"}
    /\ Len(procs) = 2
    /\ \E m \in DOMAIN modules :
         /\ StoppedAfterRun(m)
         /\ ~IsAlive(modules, procs, m)
         /\ modules[m].last_process = 2
         /\ procs[2] = [owner |-> m, exited |-> TRUE]
         /\ procs[1] = [owner |-> m, exited |-> FALSE]

\* The thread is inside the wait() of a stop() on module m.
Blocked(m) == pc = "wait" /\ cur = m

\* C18 (stop blocks without timeout): stop() on an alive module enters wait()
\* and changes nothing before.  While the child has not exited the call does
\* not return and no supervisor operation runs: modules, the position of the
\* thread, the rest of a stop_all loop and the record of the last call stay
\* as they are.  The call returns only after the child has exited, with
\* started false; and once the child has exited, it does return.
C18_StopBlocks ==
    /\ [][\A m \in DOMAIN modules :
            /\ (pc = "idle" /\ IsAlive(modules, procs, m) /\ Stop(m)) =>
                  Blocked(m)' /\ modules' = modules /\ procs' = procs
            /\ (Blocked(m) /\ ~Exited(modules[m].process)) =>
                  /\ Blocked(m)'
                  /\ modules' = modules
                  /\ pending' = pending
                  /\ last' = last
            /\ (Blocked(m) /\ ~Blocked(m)') =>
                  /\ Exited(modules[m].process)
                  /\ ~modules'[m].started
                  /\ procs' = procs]_vars
    /\ \A m \in OperatedNames :
         (Blocked(m) /\ Exited(modules[m].process)) ~>
            (~Blocked(m) /\ m \in DOMAIN modules /\ ~modules[m].started)

\* stop_all() is blocked in the wait() of one module whose child is running,
\* with another alive module still to stop.
C18_Witness ==
    /\ pc = "wait"
    /\ last.op = "stop_all"
    /\ ~Exited(modules[cur].process)
    /\ pending # <<>>
    /\ \E n \in ToSet(pending) : IsAlive(modules, procs, n)

\* C19 (started and handle go together): in every reachable state a module
\* is started exactly when it owns a handle; so an alive module is started,
\* and a module that was stopped and not started since has neither flag nor
\* handle.
C19_StartedIffHandle ==
    \A m \in DOMAIN modules :
       /\ modules[m].started <=> modules[m].process # NoProc
       /\ IsAlive(modules, procs, m) => modules[m].started
       /\ (modules[m].last_process # NoProc /\ ~modules[m].started) =>
             modules[m].process = NoProc

\* One module is started and alive with its handle, another has been stopped
\* and has neither flag nor handle, a third was never started.
C19_Witness ==
    /\ pc = "idle"
    /\ \E m \in DOMAIN modules : modules[m].started /\ IsAlive(modules, procs, m)
    /\ \E m \in DOMAIN modules : StoppedAfterRun(m) /\ ~IsAlive(modules, procs, m)
    /\ \E m \in DOMAIN modules : modules[m] = NewModule

\* C20 (stop_all and a crashed module): stop_all() passes over a module that
\* is started and whose child has exited, leaving its flag and handle; after
\* stop_all() has returned, get_unexpected_stops() returns the module, and the
\* module stays started with its exited child until stop() or toggle() is
\* called on it.
C20_CrashedUntilStop ==
    [][\A m \in DOMAIN modules :
         Crashed(m) =>
            /\ StopAll => modules'[m] = modules[m]
            /\ (last.op = "stop_all" /\ pc = "idle") =>
                  /\ GetUnexpectedStops => m \in last'.ret
                  /\ ~Crashed(m)' => (Stop(m) \/ Toggle(m))]_vars

====
